---------------------------- MODULE Spec2Model ----------------------------
(*
  A model of simple_email_checker.py: the per-organization mail search with
  its subject-line fallback, the extraction of text from a message's MIME part
  tree, the keyword categorizer and the report.

  Text is modelled by TLA+ strings, one character per position; Python's
  str.lower, str.strip, str.replace and the `in` operator are computed
  character by character.
*)
EXTENDS Integers, Sequences, FiniteSets, TLC

VARIABLES
    pc,             \* position of the run in main / check_emails_for_companies
    companies,      \* the list load_companies returned to main
    bs4,            \* state of the installation: is BeautifulSoup importable, does it work
    date_str,       \* check_emails_for_companies: the after: bound, computed once
    idx,            \* index in companies of the organization being checked
    search_term,    \* its normalized search term
    messages,       \* the ids the last search returned for it
    email_details,  \* the messages enriched so far for it
    company_emails, \* the ResultSet: an insertion-ordered dict, as a sequence of items
    calls,          \* history: the provider calls made so far, in order
    report,         \* what the last print_results printed
    rev_company,    \* manual_category_review: index in the ResultSet of the company under review
    rev_email,      \* index in its list of the email under review
    prompt,         \* the question the operator is asked: "" (none), "yn" or "number"
    answer,         \* the line the operator typed last
    invalid,        \* history: the invalid answers given for the email under review, up to MaxInvalid
    reviewed,       \* history: the emails the review has left behind, in order
    fn,             \* the function applied by a single-function specification
    arg,            \* its argument
    ret             \* <<>> before the call, <<result>> after it

reviewVars == <<rev_company, rev_email, prompt, answer, invalid, reviewed>>

mainVars == <<pc, companies, bs4, date_str, idx, search_term, messages, email_details,
              company_emails, calls, report, reviewVars>>

pureVars == <<fn, arg, ret>>

vars == <<mainVars, pureVars>>

\* No review is under way.
ReviewIdle ==
    /\ rev_company = 0
    /\ rev_email = 0
    /\ prompt = ""
    /\ answer = ""
    /\ invalid = 0
    /\ reviewed = <<>>

\* The run is not part of a single-function specification.
MainIdle ==
    /\ pc = "idle"
    /\ companies = <<>>
    /\ bs4 = "ok"
    /\ date_str = ""
    /\ idx = 0
    /\ search_term = ""
    /\ messages = <<>>
    /\ email_details = <<>>
    /\ company_emails = <<>>
    /\ calls = <<>>
    /\ report = <<>>
    /\ ReviewIdle

(***************************************************************************)
(* Python string primitives                                                *)
(***************************************************************************)

CharAt(s, i) == SubSeq(s, i, i)

Rest(s) == SubSeq(s, 2, Len(s))

Min(S) == CHOOSE x \in S : \A y \in S : x <= y

Max(S) == CHOOSE x \in S : \A y \in S : x >= y

\* f[lo] \o ... \o f[hi], empty when lo > hi; halving keeps the evaluation shallow
RECURSIVE Cat(_, _, _, _)
Cat(f, lo, hi, empty) ==
    IF lo > hi THEN empty
    ELSE IF lo = hi THEN f[lo]
    ELSE LET mid == (lo + hi) \div 2
         IN  Cat(f, lo, mid, empty) \o Cat(f, mid + 1, hi, empty)

\* "".join(f)
Join(f) == Cat(f, 1, Len(f), "")

UpperChars == "ABCDEFGHIJKLMNOPQRSTUVWXYZÄÖÜ"

LowerChars == "abcdefghijklmnopqrstuvwxyzäöü"

\* str.lower() on one character
LowerChar(c) ==
    IF \E i \in 1..Len(UpperChars) : CharAt(UpperChars, i) = c
    THEN CharAt(LowerChars, CHOOSE i \in 1..Len(UpperChars) : CharAt(UpperChars, i) = c)
    ELSE c

\* str.lower()
lower(s) == Join([k \in 1..Len(s) |-> LowerChar(CharAt(s, k))])

IsSpace(c) == c \in {" ", "\t", "\n", "\r", "\f"}

\* str.strip()
strip(s) ==
    LET inked == {k \in 1..Len(s) : ~IsSpace(CharAt(s, k))}
    IN  IF inked = {} THEN "" ELSE SubSeq(s, Min(inked), Max(inked))

\* sub in s
Contains(s, sub) ==
    \E i \in 1..(Len(s) - Len(sub) + 1) : SubSeq(s, i, i + Len(sub) - 1) = sub

\* s[from:].replace(old, new) for a non-empty old: left to right, non-overlapping
RECURSIVE ReplaceFrom(_, _, _, _)
ReplaceFrom(s, old, new, from) ==
    LET hits == {k \in from..(Len(s) - Len(old) + 1) : SubSeq(s, k, k + Len(old) - 1) = old}
    IN  IF hits = {} THEN SubSeq(s, from, Len(s))
        ELSE SubSeq(s, from, Min(hits) - 1) \o new
                 \o ReplaceFrom(s, old, new, Min(hits) + Len(old))

replace(s, old, new) == ReplaceFrom(s, old, new, 1)

\* str(n) for n >= 0
RECURSIVE IntToStr(_)
IntToStr(n) ==
    IF n < 10 THEN CharAt("0123456789", n + 1)
    ELSE IntToStr(n \div 10) \o CharAt("0123456789", (n % 10) + 1)

(***************************************************************************)
(* base64.urlsafe_b64decode(data).decode('utf-8', errors='replace')        *)
(* (lines 120, 329, 333) and the provider's encoding that it undoes        *)
(***************************************************************************)

\* The URL-safe alphabet; the character at position v+1 stands for the value v.
B64Alphabet == "ABCDEFGHIJKLMNOPQRSTUVWXYZabcdefghijklmnopqrstuvwxyz0123456789-_"

\* The value of a character of data, -1 for a character outside the alphabet
\* (urlsafe_b64decode turns - and _ into + and /, so both spellings count).
B64Value(c) ==
    IF c = "+" THEN 62
    ELSE IF c = "/" THEN 63
    ELSE IF \E v \in 1..Len(B64Alphabet) : CharAt(B64Alphabet, v) = c
         THEN (CHOOSE v \in 1..Len(B64Alphabet) : CharAt(B64Alphabet, v) = c) - 1
         ELSE -1

\* The scanner of binascii.a2b_base64 at an = sign, with quad_pos data characters
\* of the current quad read and pads = signs met since the last of them: this =
\* completes the quad (the first = after three data characters, the second after
\* two) and ends the data.
B64EndsQuad(quad_pos, pads) == quad_pos >= 2 /\ quad_pos + pads + 1 >= 4

\* The positions of data at which the scanner ends the data; valid holds the
\* positions of the characters of the alphabet.
B64Ends(data, valid) ==
    {p \in 1..Len(data) :
        /\ CharAt(data, p) = "="
        /\ B64EndsQuad(Cardinality({k \in valid : k < p}) % 4,
                       Cardinality({k \in (Max({0} \cup {v \in valid : v < p}) + 1)..(p - 1) :
                                       CharAt(data, k) = "="}))}

\* The bytes of count data characters with the values val; open: the data ended
\* without an = that completes a quad, and a quad left dangling is an error.
B64Bytes(open, count, val) ==
    IF open /\ count % 4 = 1
    THEN [exc |-> "Invalid base64-encoded string: number of data characters ("
                      \o IntToStr(count) \o ") cannot be 1 more than a multiple of 4"]
    ELSE IF open /\ count % 4 # 0
    THEN [exc |-> "Incorrect padding"]
    ELSE [bytes |->
            [m \in 1..(3 * (count \div 4) + (IF count % 4 = 0 THEN 0 ELSE (count % 4) - 1)) |->
                IF (m - 1) % 3 = 0
                THEN val[4 * ((m - 1) \div 3) + 1] * 4 + (val[4 * ((m - 1) \div 3) + 2] \div 16)
                ELSE IF (m - 1) % 3 = 1
                THEN (val[4 * ((m - 1) \div 3) + 2] % 16) * 16
                         + (val[4 * ((m - 1) \div 3) + 3] \div 4)
                ELSE (val[4 * ((m - 1) \div 3) + 3] % 4) * 64 + val[4 * ((m - 1) \div 3) + 4]]]

\* used: the data characters that count, in order
B64Unpack(open, used) ==
    B64Bytes(open, Len(used), [j \in 1..Len(used) |-> B64Value(CharAt(used, j))])

B64Scan(data, valid, ends) ==
    B64Unpack(ends = {},
              Join([p \in 1..(IF ends = {} THEN Len(data) ELSE Min(ends) - 1) |->
                       IF p \in valid THEN CharAt(data, p) ELSE ""]))

B64Valid(data, valid) == B64Scan(data, valid, B64Ends(data, valid))

\* binascii.a2b_base64, not strict: characters outside the alphabet are skipped;
\* an = that completes a quad ends the data; a quad left dangling at the end is an
\* error.
a2b_base64(data) ==
    B64Valid(data, {p \in 1..Len(data) : B64Value(CharAt(data, p)) >= 0})

urlsafe_b64decode(data) == a2b_base64(data)

\* The characters of the model: printable ASCII but the grave accent (code points
\* 32-95 and 97-126), the control characters below, the Latin-1 letters and the
\* euro sign; OtherChar stands for every other character.
AsciiLow == " !\"#$%&'()*+,-./0123456789:;<=>?@ABCDEFGHIJKLMNOPQRSTUVWXYZ[\\]^_"

AsciiHigh == "abcdefghijklmnopqrstuvwxyz{|}~"

WideChars == "ÄÖÜßäöü€"

WideCodePoints == <<196, 214, 220, 223, 228, 246, 252, 8364>>

OtherChar == "¤"

ReplacementChar == "�"

\* chr(cp)
Chr(cp) ==
    IF cp >= 32 /\ cp <= 95 THEN CharAt(AsciiLow, cp - 31)
    ELSE IF cp >= 97 /\ cp <= 126 THEN CharAt(AsciiHigh, cp - 96)
    ELSE IF cp = 9 THEN "\t"
    ELSE IF cp = 10 THEN "\n"
    ELSE IF cp = 13 THEN "\r"
    ELSE IF \E k \in 1..Len(WideCodePoints) : WideCodePoints[k] = cp
         THEN CharAt(WideChars, CHOOSE k \in 1..Len(WideCodePoints) : WideCodePoints[k] = cp)
         ELSE OtherChar

\* ord(c), for a character of the model
Ord(c) ==
    IF \E k \in 1..Len(AsciiLow) : CharAt(AsciiLow, k) = c
    THEN (CHOOSE k \in 1..Len(AsciiLow) : CharAt(AsciiLow, k) = c) + 31
    ELSE IF \E k \in 1..Len(AsciiHigh) : CharAt(AsciiHigh, k) = c
    THEN (CHOOSE k \in 1..Len(AsciiHigh) : CharAt(AsciiHigh, k) = c) + 96
    ELSE IF c = "\t" THEN 9
    ELSE IF c = "\n" THEN 10
    ELSE IF c = "\r" THEN 13
    ELSE IF \E k \in 1..Len(WideChars) : CharAt(WideChars, k) = c
         THEN WideCodePoints[CHOOSE k \in 1..Len(WideChars) : CharAt(WideChars, k) = c]
         ELSE 65533

\* How many continuation bytes a lead byte announces (0: not a lead byte).
Utf8Need(b) ==
    IF b >= 194 /\ b <= 223 THEN 1
    ELSE IF b >= 224 /\ b <= 239 THEN 2
    ELSE IF b >= 240 /\ b <= 244 THEN 3
    ELSE 0

\* Is c acceptable as continuation byte number n after lead byte b?
Utf8Continues(b, n, c) ==
    IF n > 1 THEN c >= 128 /\ c <= 191
    ELSE IF b = 224 THEN c >= 160 /\ c <= 191
    ELSE IF b = 237 THEN c >= 128 /\ c <= 159
    ELSE IF b = 240 THEN c >= 144 /\ c <= 191
    ELSE IF b = 244 THEN c >= 128 /\ c <= 143
    ELSE c >= 128 /\ c <= 191

\* The number of acceptable continuation bytes that follow the lead byte bytes[1].
RECURSIVE Utf8Run(_, _)
Utf8Run(bytes, n) ==
    IF /\ n < Utf8Need(bytes[1])
       /\ n + 2 <= Len(bytes)
       /\ Utf8Continues(bytes[1], n + 1, bytes[n + 2])
    THEN Utf8Run(bytes, n + 1)
    ELSE n

\* bytes.decode('utf-8', errors='replace'): a lead byte with all its continuation
\* bytes is one character; every maximal ill-formed run becomes one U+FFFD.
utf8_decode(bytes) ==
    LET n == Len(bytes)
        run(p) == Utf8Run(SubSeq(bytes, p, n), 0)
        \* bytes[p] is swallowed as a continuation byte of a lead byte before it
        swallowed(p) == \E q \in (p - 3)..(p - 1) :
                            q >= 1 /\ Utf8Need(bytes[q]) > 0 /\ q + run(q) >= p
        char(p) ==
            LET b == bytes[p]
            IN  IF swallowed(p) THEN ""
                ELSE IF b < 128 THEN Chr(b)
                ELSE IF Utf8Need(b) = 0 \/ run(p) < Utf8Need(b) THEN ReplacementChar
                ELSE IF run(p) = 1
                    THEN Chr((b % 32) * 64 + (bytes[p + 1] % 64))
                ELSE IF run(p) = 2
                    THEN Chr((b % 16) * 4096 + (bytes[p + 1] % 64) * 64 + (bytes[p + 2] % 64))
                ELSE Chr((b % 8) * 262144 + (bytes[p + 1] % 64) * 4096
                             + (bytes[p + 2] % 64) * 64 + (bytes[p + 3] % 64))
    IN  Join([p \in 1..n |-> char(p)])

\* The provider's side: text.encode('utf-8')
utf8_encode(text) ==
    LET enc(c) == LET cp == Ord(c)
                  IN  IF cp < 128 THEN <<cp>>
                      ELSE IF cp < 2048 THEN <<192 + (cp \div 64), 128 + (cp % 64)>>
                      ELSE <<224 + (cp \div 4096), 128 + ((cp \div 64) % 64), 128 + (cp % 64)>>
    IN  Cat([k \in 1..Len(text) |-> enc(CharAt(text, k))], 1, Len(text), <<>>)

B64Char(v) == CharAt(B64Alphabet, v + 1)

\* The provider's side: base64.urlsafe_b64encode(bytes), padded with =
urlsafe_b64encode(bytes) ==
    LET n == Len(bytes)
        quad(g) ==
            LET b1 == bytes[3 * g - 2]
                b2 == IF 3 * g - 1 <= n THEN bytes[3 * g - 1] ELSE 0
                b3 == IF 3 * g <= n THEN bytes[3 * g] ELSE 0
            IN  B64Char(b1 \div 4) \o B64Char((b1 % 4) * 16 + (b2 \div 16))
                    \o (IF 3 * g - 1 <= n THEN B64Char((b2 % 16) * 4 + (b3 \div 64)) ELSE "=")
                    \o (IF 3 * g <= n THEN B64Char(b3 % 64) ELSE "=")
    IN  Join([g \in 1..((n + 2) \div 3) |-> quad(g)])

\* body.data as the provider sends it for a text
EncodeData(text) == urlsafe_b64encode(utf8_encode(text))

(***************************************************************************)
(* The normalized search term (check_emails_for_companies, lines 399-403)  *)
(***************************************************************************)

Suffixes == <<" inc", " llc", " corp", " corporation", " ltd", " limited", " group">>

RECURSIVE StripSuffixes(_, _)
StripSuffixes(term, k) ==
    IF k > Len(Suffixes) THEN term
    ELSE StripSuffixes(replace(term, Suffixes[k], ""), k + 1)

SearchTerm(company) == StripSuffixes(strip(lower(company)), 1)

(***************************************************************************)
(* SpecSearchTerm: the normalization applied to sample organization names  *)
(***************************************************************************)

MaxSuffixTokens == 2

BaseNames == {"Acme", "Beta Works", "Zeta-9"}

SuffixTokens == {"Inc", "LLC", "Corp", "Corporation", "Ltd", "Limited", "Group"}

\* base \o " Tok1 Tok2 ...": a name followed by n legal-suffix tokens
RECURSIVE WithSuffixTokens(_, _)
WithSuffixTokens(names, n) ==
    IF n = 0 THEN names
    ELSE names \cup WithSuffixTokens({nm \o " " \o t : nm \in names, t \in SuffixTokens}, n - 1)

\* load_companies keeps a cell's surrounding blanks: the names come padded or not
SampleNames ==
    LET plain == WithSuffixTokens(BaseNames, MaxSuffixTokens)
    IN  plain \cup {nm \o " " : nm \in plain}

SearchTermInit ==
    /\ MainIdle
    /\ fn = "search_term"
    /\ arg \in SampleNames
    /\ ret = <<>>

ApplySearchTerm ==
    /\ fn = "search_term"
    /\ ret = <<>>
    /\ ret' = <<SearchTerm(arg)>>
    /\ UNCHANGED <<mainVars, fn, arg>>

SpecSearchTerm == SearchTermInit /\ [][ApplySearchTerm]_vars

\* The base name of a sample name: what is left when the trailing legal-suffix
\* tokens are taken off.
RECURSIVE BaseOf(_)
BaseOf(name) ==
    LET s == strip(name)
    IN  IF \E t \in SuffixTokens :
               /\ Len(s) > Len(t)
               /\ SubSeq(s, Len(s) - Len(t), Len(s)) = " " \o t
        THEN LET last == CHOOSE t \in SuffixTokens :
                             /\ Len(s) > Len(t)
                             /\ SubSeq(s, Len(s) - Len(t), Len(s)) = " " \o t
             IN  BaseOf(SubSeq(s, 1, Len(s) - Len(last) - 1))
        ELSE s

\* C7: the normalized search term of a name is the lower-cased, trimmed name with
\* every configured legal suffix stripped and the rest of the name intact, and it
\* is not empty.
C7_SuffixesStripped ==
    ret # <<>> => /\ ret[1] = lower(BaseOf(arg))
                  /\ ret[1] # ""

(***************************************************************************)
(* categorize_email (lines 227-312)                                        *)
(***************************************************************************)

submission_keywords == <<
    "application received", "thank you for applying", "received your application",
    "successfully submitted", "confirm receipt", "has been received", "application confirmation",
    "thank you for your interest", "thank you for submitting", "we've received your application",
    "bewerbung eingegangen", "vielen dank für ihre bewerbung", "bewerbung erhalten",
    "erfolgreich eingereicht", "eingang bestätigen", "ist eingegangen",
    "bewerbungsbestätigung", "vielen dank für ihr interesse", "haben ihre bewerbung erhalten",
    "werden deine unterlagen prüfen" >>

rejection_keywords == <<
    "regret to inform", "unable to proceed", "not moving forward", "we have decided",
    "unfortunately", "not selected", "other candidates", "not successful",
    "does not match", "position has been filled", "no longer available", "we decided to pursue",
    "leider", "bedauern", "nicht weiterverfolgen", "nicht entspricht",
    "andere kandidaten", "nicht erfolgreich", "nicht ausgewählt",
    "position wurde besetzt", "nicht mehr verfügbar", "nicht weiterkommen",
    "müssen wir ihnen mitteilen", "entschieden haben" >>

interview_keywords == <<
    "interview", "would like to invite", "next steps", "meet with", "discussion",
    "schedule a call", "available for a", "assessment", "phone screening", "video call",
    "vorstellungsgespräch", "einladen", "nächste schritte", "termin vereinbaren",
    "gespräch", "telefonat", "verfügbar für ein", "assessment", "telefoninterview",
    "videoanruf", "kennenlernen" >>

\* for keyword in keywords: if keyword in email_body_lower
AnyKeyword(keywords, email_body_lower) ==
    \E k \in 1..Len(keywords) : Contains(email_body_lower, keywords[k])

\* The rules in the order a plausible slip would give them: rejection before interview.
KeywordRulesRejectionFirst(email_body_lower, company_name) ==
    IF AnyKeyword(submission_keywords, email_body_lower)
        THEN "Application Submitted"
    ELSE IF AnyKeyword(rejection_keywords, email_body_lower)
        THEN "Application Rejected"
    ELSE IF AnyKeyword(interview_keywords, email_body_lower)
        THEN "Interview Request"
    ELSE IF \/ /\ Contains(email_body_lower, "thank")
               /\ Contains(email_body_lower, "application")
            \/ /\ Contains(email_body_lower, "danke")
               /\ Contains(email_body_lower, "bewerbung")
        THEN "Application Submitted"
    ELSE IF /\ Contains(email_body_lower, lower(company_name))
            /\ Contains(email_body_lower, "application")
        THEN "Application Related"
    ELSE "Other"

\* lines 282-312: the rules, first match wins
KeywordRules(email_body_lower, company_name) ==
    IF AnyKeyword(submission_keywords, email_body_lower)
        THEN "Application Submitted"
    ELSE IF AnyKeyword(interview_keywords, email_body_lower)
        THEN "Interview Request"
    ELSE IF AnyKeyword(rejection_keywords, email_body_lower)
        THEN "Application Rejected"
    ELSE IF \/ /\ Contains(email_body_lower, "thank")
               /\ Contains(email_body_lower, "application")
            \/ /\ Contains(email_body_lower, "danke")
               /\ Contains(email_body_lower, "bewerbung")
        THEN "Application Submitted"
    ELSE IF /\ Contains(email_body_lower, lower(company_name))
            /\ Contains(email_body_lower, "application")
        THEN "Application Related"
    ELSE "Other"

\* An empty body treated as a failure instead of as "Other".
categorize_email_empty_is_error(email_body, company_name) ==
    IF email_body = "" THEN "Error"
    ELSE KeywordRules(lower(email_body), company_name)

categorize_email(email_body, company_name) ==
    IF email_body = "" THEN "Other"
    ELSE KeywordRules(lower(email_body), company_name)

(***************************************************************************)
(* process_parts (lines 319-341)                                           *)
(*                                                                         *)
(* A part is a record with the optional fields mimeType, body (a record    *)
(* with the optional field data) and parts (a sequence of parts).  A call  *)
(* that raises returns [exc |-> str(e)].                                   *)
(***************************************************************************)

Raised(r) == "exc" \in DOMAIN r

\* part.get('mimeType', '')
MimeTypeOf(part) == IF "mimeType" \in DOMAIN part THEN part.mimeType ELSE ""

\* 'data' in part.get('body', {})
HasData(part) == "body" \in DOMAIN part /\ "data" \in DOMAIN part.body

\* base64.urlsafe_b64decode(data).decode('utf-8', errors='replace')
DecodeBytes(raw) == IF Raised(raw) THEN raw ELSE [text |-> utf8_decode(raw.bytes)]

DecodeData(data) == DecodeBytes(urlsafe_b64decode(data))

\* The traversal with `if` in place of the second `elif`: the subparts of a text
\* part that carries data are visited too.
RECURSIVE VisitAllFrom(_, _, _, _)

VisitedPart(parts, k, plain_text, html_content, mime_type, own, nested) ==
    IF Raised(own) THEN own
    ELSE IF Raised(nested) THEN nested
    ELSE VisitAllFrom(parts, k + 1,
             plain_text \o (IF mime_type = "text/plain" THEN own.text ELSE "")
                        \o nested.plain_text,
             html_content \o (IF mime_type = "text/html" THEN own.text ELSE "")
                          \o nested.html_content)

VisitAllFrom(parts, k, plain_text, html_content) ==
    IF k > Len(parts) THEN [plain_text |-> plain_text, html_content |-> html_content]
    ELSE VisitedPart(parts, k, plain_text, html_content, MimeTypeOf(parts[k]),
             IF MimeTypeOf(parts[k]) \in {"text/plain", "text/html"} /\ HasData(parts[k])
             THEN DecodeData(parts[k].body.data) ELSE [text |-> ""],
             IF "parts" \in DOMAIN parts[k]
             THEN VisitAllFrom(parts[k].parts, 1, "", "")
             ELSE [plain_text |-> "", html_content |-> ""])

process_parts_visit_all(parts) == VisitAllFrom(parts, 1, "", "")

RECURSIVE process_parts(_)

RECURSIVE ProcessFrom(_, _, _, _)

\* lines 326-334: the decoded data of a text part is appended to the buffer of its
\* type
TextPart(parts, k, plain_text, html_content, mime_type, decoded) ==
    IF Raised(decoded) THEN decoded
    ELSE IF mime_type = "text/plain"
    THEN ProcessFrom(parts, k + 1, plain_text \o decoded.text, html_content)
    ELSE ProcessFrom(parts, k + 1, plain_text, html_content \o decoded.text)

\* lines 337-341: both buffers of the recursive call are appended
NestedParts(parts, k, plain_text, html_content, nested) ==
    IF Raised(nested) THEN nested
    ELSE ProcessFrom(parts, k + 1, plain_text \o nested.plain_text,
                     html_content \o nested.html_content)

\* the loop of process_parts from its k-th part on, with the buffers so far
ProcessFrom(parts, k, plain_text, html_content) ==
    IF k > Len(parts) THEN [plain_text |-> plain_text, html_content |-> html_content]
    ELSE IF MimeTypeOf(parts[k]) \in {"text/plain", "text/html"} /\ HasData(parts[k])
    THEN TextPart(parts, k, plain_text, html_content, MimeTypeOf(parts[k]),
                  DecodeData(parts[k].body.data))
    ELSE IF "parts" \in DOMAIN parts[k]
    THEN NestedParts(parts, k, plain_text, html_content, process_parts(parts[k].parts))
    ELSE ProcessFrom(parts, k + 1, plain_text, html_content)

process_parts(parts) == ProcessFrom(parts, 1, "", "")

(***************************************************************************)
(* extract_email_content (lines 76-175)                                    *)
(***************************************************************************)

\* BeautifulSoup(html, 'html.parser'), script and style elements removed,
\* get_text(separator=' ', strip=True): the text between the tags, outside script
\* and style elements, each run stripped, the non-empty runs joined by one blank.
\* Character references are not in the model's sample markup and are not modelled.
get_text(html) ==
    LET n == Len(html)
        lts == {q \in 1..n : CharAt(html, q) = "<"}
        gts == {q \in 1..n : CharAt(html, q) = ">"}
        \* p is a character of a tag: the last < up to p has no > between it and p
        InTag(p) == Max({0} \cup {q \in lts : q <= p}) > Max({0} \cup {q \in gts : q < p})
        \* the name of the tag that starts at q, lower-cased, with its leading /
        TagName(q) ==
            LET stops == {r \in (q + 1)..n : CharAt(html, r) \in {" ", ">", "\n", "\t"}}
                stop == IF stops = {} THEN n + 1 ELSE Min(stops)
            IN  lower(SubSeq(html, q + 1, stop - 1))
        names == [q \in lts |-> TagName(q)]
        opens == {q \in lts : names[q] \in {"script", "style"}}
        \* p lies in an element that was removed
        Removed(p) == \E q \in opens :
                          /\ q < p
                          /\ ~\E r \in lts : q < r /\ r < p /\ names[r] = "/" \o names[q]
        starts == {p \in 1..n : ~InTag(p) /\ (p = 1 \/ InTag(p - 1)) /\ ~Removed(p)}
        RunEnd(p) == Min({n + 1} \cup {q \in lts : q > p}) - 1
        texts == [p \in starts |-> strip(SubSeq(html, p, RunEnd(p)))]
        inked == {p \in starts : texts[p] # ""}
        Piece(p) == IF p \notin inked THEN ""
                    ELSE IF p = Min(inked) THEN texts[p]
                    ELSE " " \o texts[p]
    IN  Join([p \in 1..n |-> Piece(p)])

\* What BeautifulSoup raises when it is installed and fails.
Bs4Failure == "maximum recursion depth exceeded"

Bs4Modes == {"ok", "missing", "raises"}

\* lines 132-145: the text of the HTML buffer; a failure of the markup stripping
\* is caught here and becomes the body
HtmlBody(html_content) ==
    IF bs4 = "ok" THEN get_text(html_content)
    ELSE IF bs4 = "missing"
    THEN "[HTML Email - Install BeautifulSoup to extract text content]"
    ELSE "[Error extracting text from HTML: " \o Bs4Failure \o "]"

\* The resolution with the two buffers taken in the other order.
FinalBodyHtmlFirst(plain_text, html_content) ==
    IF html_content # "" THEN [body |-> HtmlBody(html_content)]
    ELSE IF plain_text # "" THEN [body |-> plain_text]
    ELSE [body |-> ""]

\* The resolution that lets a failure of the markup stripping escape to the
\* handler of extract_email_content.
FinalBodyStrictHtml(plain_text, html_content) ==
    IF plain_text # "" THEN [body |-> plain_text]
    ELSE IF html_content # ""
    THEN IF bs4 = "raises" THEN [exc |-> Bs4Failure] ELSE [body |-> HtmlBody(html_content)]
    ELSE [body |-> ""]

\* lines 127-145: the final content to use (nothing escapes this step: the result
\* is always [body |-> ...])
FinalBody(plain_text, html_content) ==
    IF plain_text # "" THEN [body |-> plain_text]
    ELSE IF html_content # "" THEN [body |-> HtmlBody(html_content)]
    ELSE [body |-> ""]

None == <<>>

\* next((header['value'] for header in headers if header['name'] == name), default)
HeaderValue(headers, name, default) ==
    LET hits == {k \in 1..Len(headers) : headers[k].name = name}
    IN  IF hits = {} THEN default ELSE headers[Min(hits)].value

\* The Date headers of the sample messages that email.utils.parsedate_tz accepts.
ParsableDates == {"Mon, 03 Nov 2025 10:15:00 +0100", "Tue, 28 Oct 2025 08:00:00 +0000"}

\* lines 91-105: the parsed date is the datetime of the header, written
\* <<header>>; None when the header is absent or not a date. The conversion to a
\* local datetime is not modelled.
ParseDate(header) == IF header \in ParsableDates THEN <<header>> ELSE None

\* lines 166-175
ErrorEmail(e) ==
    [subject |-> "Error retrieving subject",
     sender |-> "Error retrieving sender",
     date |-> None,
     body |-> "Error retrieving body: " \o e,
     html |-> "",
     category |-> "Error"]

\* lines 117-125: the buffers of a single-part message
SinglePartBuffers(mime_type, decoded) ==
    IF Raised(decoded) THEN decoded
    ELSE [plain_text |-> IF mime_type = "text/plain" THEN decoded.text ELSE "",
          html_content |-> IF mime_type = "text/html" THEN decoded.text ELSE ""]

\* lines 107-125: the two buffers of a payload
Buffers(payload) ==
    IF "parts" \in DOMAIN payload THEN process_parts(payload.parts)
    ELSE IF /\ "body" \in DOMAIN payload
            /\ "data" \in DOMAIN payload.body
            /\ payload.body.data # ""
    THEN SinglePartBuffers(MimeTypeOf(payload), DecodeData(payload.body.data))
    ELSE [plain_text |-> "", html_content |-> ""]

\* lines 147-165: the message with its final body
Categorized(headers, html_content, final, company_name) ==
    IF Raised(final) THEN ErrorEmail(final.exc)
    ELSE [subject |-> HeaderValue(headers, "Subject", "No Subject"),
          sender |-> HeaderValue(headers, "From", "Unknown Sender"),
          date |-> ParseDate(HeaderValue(headers, "Date", "")),
          body |-> final.body,
          html |-> html_content,
          category |-> categorize_email(final.body, company_name)]

\* lines 127-165
Resolved(headers, buffers, company_name) ==
    IF Raised(buffers) THEN ErrorEmail(buffers.exc)
    ELSE Categorized(headers, buffers.html_content,
                     FinalBody(buffers.plain_text, buffers.html_content), company_name)

\* lines 80-175: message is what
\* service.users().messages().get(userId='me', id=msg_id, format='full').execute()
\* returned, or [exc |-> ...] when the call raised
Extracted(message, company_name) ==
    IF Raised(message) THEN ErrorEmail(message.exc)
    ELSE IF "payload" \notin DOMAIN message THEN ErrorEmail("'payload'")
    ELSE IF "headers" \notin DOMAIN message.payload THEN ErrorEmail("'headers'")
    ELSE Resolved(message.payload.headers, Buffers(message.payload), company_name)

\* service maps a message id to the answer of the provider's get call
extract_email_content(service, msg_id, company_name) ==
    Extracted(service[msg_id], company_name)

(***************************************************************************)
(* SpecCategorize: the categorizer applied to sample bodies                *)
(***************************************************************************)

MaxFragments == 2

Fragments == {
    "Thank you for applying. ",
    "Unfortunately we have decided ",
    "We would like to invite you for an Interview. ",
    "Next steps: unfortunately not on site. ",
    "Leider können wir Ihnen keine Stelle anbieten. ",
    "Thanks, ",
    "your application at Acme Inc ",
    "Danke, ",
    "BEWERBUNG ",
    "Hello from Beta LLC\n",
    "VIELEN DANK FÜR IHRE " }

\* the concatenations of at most n fragments
RECURSIVE Bodies(_)
Bodies(n) ==
    IF n = 0 THEN {""}
    ELSE LET shorter == Bodies(n - 1)
         IN  shorter \cup {b \o f : b \in shorter, f \in Fragments}

SampleCompanies == {"Acme Inc", "Beta LLC", "Gamma"}

CategorizeInit ==
    /\ MainIdle
    /\ fn = "categorize_email"
    /\ arg \in [email_body : Bodies(MaxFragments), company_name : SampleCompanies]
    /\ ret = <<>>

ApplyCategorize ==
    /\ fn = "categorize_email"
    /\ ret = <<>>
    /\ ret' = <<categorize_email(arg.email_body, arg.company_name)>>
    /\ UNCHANGED <<mainVars, fn, arg>>

SpecCategorize == CategorizeInit /\ [][ApplyCategorize]_vars

HasSubmission(body) == AnyKeyword(submission_keywords, lower(body))

HasInterview(body) == AnyKeyword(interview_keywords, lower(body))

HasRejection(body) == AnyKeyword(rejection_keywords, lower(body))

HasThanksPair(body) ==
    \/ Contains(lower(body), "thank") /\ Contains(lower(body), "application")
    \/ Contains(lower(body), "danke") /\ Contains(lower(body), "bewerbung")

HasNamePair(body, company) ==
    Contains(lower(body), lower(company)) /\ Contains(lower(body), "application")

\* C5 (as amended): on a non-empty body the rules apply in the order submission,
\* interview, rejection, thank+application pair, organization name+application,
\* Other, and the first match wins: submission keyword and rejection keyword give
\* Application Submitted; interview keyword and rejection keyword, with no
\* submission keyword, give Interview Request.
C5_FirstMatchWins ==
    (ret # <<>> /\ arg.email_body # "") =>
        LET b == arg.email_body
            sub == HasSubmission(b)
            int == HasInterview(b)
            rej == HasRejection(b)
            thx == HasThanksPair(b)
            nam == HasNamePair(b, arg.company_name)
        IN  /\ sub => ret[1] = "Application Submitted"
            /\ (~sub /\ int) => ret[1] = "Interview Request"
            /\ (~sub /\ ~int /\ rej) => ret[1] = "Application Rejected"
            /\ (~sub /\ ~int /\ ~rej /\ thx) => ret[1] = "Application Submitted"
            /\ (~sub /\ ~int /\ ~rej /\ ~thx /\ nam) => ret[1] = "Application Related"
            /\ (~sub /\ ~int /\ ~rej /\ ~thx /\ ~nam) => ret[1] = "Other"

\* An interview keyword beat a rejection keyword.
C5_Witness ==
    /\ ret = <<"Interview Request">>
    /\ HasInterview(arg.email_body)
    /\ HasRejection(arg.email_body)

\* C5 as stated: every body with a submission and a rejection keyword gives
\* Application Submitted, and every body with an interview and a rejection keyword
\* gives Interview Request.
C5_AsStated ==
    ret # <<>> =>
        /\ (HasSubmission(arg.email_body) /\ HasRejection(arg.email_body))
               => ret[1] = "Application Submitted"
        /\ (HasInterview(arg.email_body) /\ HasRejection(arg.email_body))
               => ret[1] = "Interview Request"

KeywordCategories ==
    {"Application Submitted", "Application Rejected", "Interview Request",
     "Application Related", "Other"}

MaxParts == 2

\* The text the provider holds for the part with this partId.
TextOfPart(partId) == "[" \o partId \o "]"

\* A part as the provider sends it: its data, when it has some, encodes the text
\* of the part; its subparts, when it has some, are a sequence of parts.
SamplePart(partId, mime, data, subparts) ==
    [partId |-> partId, mimeType |-> mime]
        @@ (IF data THEN [body |-> [data |-> EncodeData(TextOfPart(partId))]]
            ELSE [body |-> [size |-> 0]])
        @@ (IF subparts = <<>> THEN <<>> ELSE [parts |-> subparts])

\* The subparts of the sample part partId, by shape.
SampleSubparts(partId, shape) ==
    LET plain == SamplePart(partId \o ".0", "text/plain", TRUE, <<>>)
        html == SamplePart(partId \o ".1", "text/html", TRUE, <<>>)
    IN  IF shape = "plain" THEN <<plain>>
        ELSE IF shape = "both" THEN <<plain, html>>
        ELSE IF shape = "nested"
        THEN <<SamplePart(partId \o ".0", "multipart/alternative", FALSE,
                   << SamplePart(partId \o ".0.0", "text/plain", TRUE, <<>>),
                      SamplePart(partId \o ".0.1", "text/html", TRUE, <<>>) >>)>>
        ELSE <<>>

SampleKinds == {
    [mime |-> "text/plain", data |-> TRUE, sub |-> "none"],
    [mime |-> "text/html", data |-> TRUE, sub |-> "none"],
    [mime |-> "text/plain", data |-> FALSE, sub |-> "none"],
    [mime |-> "application/pdf", data |-> TRUE, sub |-> "none"],
    [mime |-> "multipart/alternative", data |-> FALSE, sub |-> "both"],
    [mime |-> "multipart/mixed", data |-> FALSE, sub |-> "nested"],
    [mime |-> "multipart/mixed", data |-> TRUE, sub |-> "plain"],
    [mime |-> "text/plain", data |-> TRUE, sub |-> "both"],
    [mime |-> "text/html", data |-> TRUE, sub |-> "plain"],
    [mime |-> "text/plain", data |-> FALSE, sub |-> "both"] }

\* The lists of at most MaxParts sample parts, numbered 0, 1, ... as the provider does.
SamplePartLists ==
    UNION { { [k \in 1..n |-> SamplePart(IntToStr(k - 1), kinds[k].mime, kinds[k].data,
                                         SampleSubparts(IntToStr(k - 1), kinds[k].sub))] :
              kinds \in [1..n -> SampleKinds] } : n \in 0..MaxParts }

\* The sample payloads: a root of any kind with a list of parts, or a single part.
SamplePayloads ==
    { [mimeType |-> root.mime]
          @@ (IF root.data THEN [body |-> [data |-> EncodeData(TextOfPart("root"))]]
              ELSE [body |-> [size |-> 0]])
          @@ (IF root.sub = "none" THEN <<>> ELSE [parts |-> parts]) :
      root \in SampleKinds, parts \in SamplePartLists }

BuffersInit ==
    /\ MainIdle
    /\ fn = "Buffers"
    /\ arg \in SamplePayloads
    /\ ret = <<>>

ApplyBuffers ==
    /\ fn = "Buffers"
    /\ ret = <<>>
    /\ ret' = <<Buffers(arg)>>
    /\ UNCHANGED <<mainVars, fn, arg>>

SpecBuffers == BuffersInit /\ [][ApplyBuffers]_vars

IsTextWithData(part) == MimeTypeOf(part) \in {"text/plain", "text/html"} /\ HasData(part)

\* Every part of the list and all its descendants, in document order.
RECURSIVE AllParts(_)
AllParts(parts) ==
    Cat([k \in 1..Len(parts) |->
            <<parts[k]>> \o (IF "parts" \in DOMAIN parts[k] THEN AllParts(parts[k].parts)
                             ELSE <<>>)],
        1, Len(parts), <<>>)

\* The parts of the list and their descendants, in document order, without the
\* descendants of a text/plain or text/html part that carries data.
RECURSIVE PartsBelowContainers(_)
PartsBelowContainers(parts) ==
    Cat([k \in 1..Len(parts) |->
            <<parts[k]>> \o (IF "parts" \in DOMAIN parts[k] /\ ~IsTextWithData(parts[k])
                             THEN PartsBelowContainers(parts[k].parts)
                             ELSE <<>>)],
        1, Len(parts), <<>>)

\* The texts of the parts of type mime that carry data, concatenated.
TextsOf(parts, mime) ==
    Join([k \in 1..Len(parts) |->
             IF MimeTypeOf(parts[k]) = mime /\ HasData(parts[k])
             THEN TextOfPart(parts[k].partId) ELSE ""])

\* C8 (as amended): below a root that has parts, a part's subparts are traversed
\* exactly when the part is not itself a text/plain or text/html part carrying
\* data; such a text part contributes its own payload only. The buffers hold the
\* texts of the traversed parts in document order; the root's own payload is not
\* used when the root has parts.
C8_ContainersTraversed ==
    (ret # <<>> /\ "parts" \in DOMAIN arg) =>
        /\ ret[1].plain_text = TextsOf(PartsBelowContainers(arg.parts), "text/plain")
        /\ ret[1].html_content = TextsOf(PartsBelowContainers(arg.parts), "text/html")

\* A text part with data and subparts was met, next to a container with subparts.
C8_Witness ==
    /\ ret # <<>>
    /\ "parts" \in DOMAIN arg
    /\ \E k \in 1..Len(arg.parts) :
           IsTextWithData(arg.parts[k]) /\ "parts" \in DOMAIN arg.parts[k]
    /\ \E k \in 1..Len(arg.parts) :
           ~IsTextWithData(arg.parts[k]) /\ "parts" \in DOMAIN arg.parts[k]
    /\ ret[1].plain_text # ""

\* C8 as stated: every part that has subparts has them traversed, a text part
\* with data included: the buffers hold the texts of all the parts below the root.
C8_AsStated ==
    (ret # <<>> /\ "parts" \in DOMAIN arg) =>
        /\ ret[1].plain_text = TextsOf(AllParts(arg.parts), "text/plain")
        /\ ret[1].html_content = TextsOf(AllParts(arg.parts), "text/html")

(***************************************************************************)
(* SpecExtract: extract_email_content applied to sample messages           *)
(***************************************************************************)

MaxPieces == 2

Pieces == {"Hi ", "Für €5\n", "<p>Thank you</p>", "<script>interview</script>", " for applying."}

\* the concatenations of at most n pieces
RECURSIVE Texts(_)
Texts(n) ==
    IF n = 0 THEN {""}
    ELSE LET shorter == Texts(n - 1)
         IN  shorter \cup {t \o x : t \in shorter, x \in Pieces}

SampleHeaders ==
    << [name |-> "Date", value |-> "Mon, 03 Nov 2025 10:15:00 +0100"],
       [name |-> "Subject", value |-> "Your application"],
       [name |-> "From", value |-> "Acme Jobs <jobs@acme.example>"],
       [name |-> "Subject", value |-> "a second Subject header"] >>

\* A message whose only part carries the text: the provider encodes it.
SinglePartMessage(headers, mime, text) ==
    [id |-> "m1",
     payload |-> [headers |-> headers, mimeType |-> mime,
                  body |-> [size |-> Len(text), data |-> EncodeData(text)]]]

\* What the provider can answer to the get call, with the text it encoded for a
\* single-part message: the calls that raise, the records that lack a field, data
\* that lost its padding, single-part messages and multipart messages.
SampleFetches ==
    { [message |-> [exc |-> "<HttpError 404 \"Requested entity was not found.\">"], sent |-> ""],
      [message |-> [id |-> "m1"], sent |-> ""],
      [message |-> [id |-> "m1", payload |-> [mimeType |-> "text/plain"]], sent |-> ""],
      [message |-> [id |-> "m1", payload |-> [headers |-> SampleHeaders,
                                               mimeType |-> "text/plain",
                                               body |-> [size |-> 2, data |-> "SGk"]]],
       sent |-> "Hi"],
      [message |-> [id |-> "m1", payload |-> [headers |-> SampleHeaders,
                                               mimeType |-> "multipart/mixed",
                                               parts |-> << [mimeType |-> "text/html",
                                                             body |-> [data |-> "P"]] >>]],
       sent |-> ""],
      [message |-> [id |-> "m1", payload |-> [headers |-> <<>>, mimeType |-> "text/plain",
                                               body |-> [size |-> 0]]],
       sent |-> ""] }
    \cup { [message |-> SinglePartMessage(SampleHeaders, mime, text), sent |-> text] :
           mime \in {"text/plain", "text/html", "application/pdf"}, text \in Texts(MaxPieces) }
    \cup { [message |-> [id |-> "m1",
                         payload |-> [headers |-> SampleHeaders,
                                      mimeType |-> "multipart/alternative",
                                      parts |-> parts]],
            sent |-> ""] : parts \in SamplePartLists }

ExtractInit ==
    /\ pc = "idle"
    /\ companies = <<>>
    /\ bs4 \in Bs4Modes
    /\ date_str = ""
    /\ idx = 0
    /\ search_term = ""
    /\ messages = <<>>
    /\ email_details = <<>>
    /\ company_emails = <<>>
    /\ calls = <<>>
    /\ report = <<>>
    /\ ReviewIdle
    /\ fn = "extract_email_content"
    /\ \E f \in SampleFetches :
           arg = [service |-> [m \in {"m1"} |-> f.message], msg_id |-> "m1",
                  company_name |-> "Acme Inc", sent |-> f.sent]
    /\ ret = <<>>

ApplyExtract ==
    /\ fn = "extract_email_content"
    /\ ret = <<>>
    /\ ret' = <<extract_email_content(arg.service, arg.msg_id, arg.company_name)>>
    /\ UNCHANGED <<mainVars, fn, arg>>

SpecExtract == ExtractInit /\ [][ApplyExtract]_vars

\* The message of the call, when the provider returned one with data that decodes.
Fetched == arg.service[arg.msg_id]

IsSinglePart ==
    /\ ~Raised(Fetched)
    /\ "payload" \in DOMAIN Fetched
    /\ "headers" \in DOMAIN Fetched.payload
    /\ "parts" \notin DOMAIN Fetched.payload
    /\ HasData(Fetched.payload)
    /\ ~Raised(urlsafe_b64decode(Fetched.payload.body.data))

IsMultipart ==
    /\ ~Raised(Fetched)
    /\ "payload" \in DOMAIN Fetched
    /\ "headers" \in DOMAIN Fetched.payload
    /\ "parts" \in DOMAIN Fetched.payload
    /\ \A k \in 1..Len(AllParts(Fetched.payload.parts)) :
           HasData(AllParts(Fetched.payload.parts)[k])
               => ~Raised(urlsafe_b64decode(AllParts(Fetched.payload.parts)[k].body.data))

\* The text the provider holds for the message in parts of type mime: the text it
\* sent as the single part, or the texts of the traversed parts.
HeldText(mime) ==
    IF IsSinglePart THEN (IF MimeTypeOf(Fetched.payload) = mime THEN arg.sent ELSE "")
    ELSE TextsOf(PartsBelowContainers(Fetched.payload.parts), mime)

\* C9: the final body is the plain-text buffer when it is not empty, else it is
\* derived from the HTML buffer when that is not empty, else it is empty; a
\* single-part text/plain message with payload P has the body P.
C9_FinalBody ==
    (ret # <<>> /\ (IsSinglePart \/ IsMultipart)) =>
        /\ HeldText("text/plain") # "" => ret[1].body = HeldText("text/plain")
        /\ (HeldText("text/plain") = "" /\ HeldText("text/html") # "")
               => ret[1].body = HtmlBody(HeldText("text/html"))
        /\ (HeldText("text/plain") = "" /\ HeldText("text/html") = "") => ret[1].body = ""
        /\ (IsSinglePart /\ MimeTypeOf(Fetched.payload) = "text/plain")
               => ret[1].body = arg.sent

\* A single-part text/plain message with a non-ASCII payload was extracted.
C9_Witness ==
    /\ ret # <<>>
    /\ IsSinglePart
    /\ MimeTypeOf(Fetched.payload) = "text/plain"
    /\ arg.sent = "Für €5\n"
    /\ ret[1].body = arg.sent

(***************************************************************************)
(* Spec: a run of main (lines 559-593)                                     *)
(***************************************************************************)

DAYS_TO_CHECK == 30

\* The number of days from 1970-01-01 to the date <<y, m, d>> of the proleptic
\* Gregorian calendar, and back: datetime's arithmetic on dates.
DaysFromCivil(date) ==
    LET y == IF date[2] <= 2 THEN date[1] - 1 ELSE date[1]
        mp == IF date[2] > 2 THEN date[2] - 3 ELSE date[2] + 9
        yoe == y % 400
        doy == ((153 * mp + 2) \div 5) + date[3] - 1
    IN  (y \div 400) * 146097 + yoe * 365 + (yoe \div 4) - (yoe \div 100) + doy - 719468

CivilFromDays(days) ==
    LET z == days + 719468
        doe == z % 146097
        yoe == (doe - (doe \div 1460) + (doe \div 36524) - (doe \div 146096)) \div 365
        doy == doe - (365 * yoe + (yoe \div 4) - (yoe \div 100))
        mp == (5 * doy + 2) \div 153
        m == IF mp < 10 THEN mp + 3 ELSE mp - 9
    IN  << yoe + (z \div 146097) * 400 + (IF m <= 2 THEN 1 ELSE 0),
           m,
           doy - ((153 * mp + 2) \div 5) + 1 >>

\* '%02d' % n
TwoDigits(n) == IF n < 10 THEN "0" \o IntToStr(n) ELSE IntToStr(n)

\* date.strftime('%Y/%m/%d'), for a year of four digits
strftime(date) == IntToStr(date[1]) \o "/" \o TwoDigits(date[2]) \o "/" \o TwoDigits(date[3])

\* lines 391-392: the after: bound on the day `today`
PastDate(today) == strftime(CivilFromDays(DaysFromCivil(today) - DAYS_TO_CHECK))

\* line 406
FromQuery(term, after) == "from:*" \o term \o "* after:" \o after

\* The fallback query without the date bound.
SubjectQueryNoDate(term, after) == "subject:*" \o term \o "*"

\* line 434
SubjectQuery(term, after) == "subject:*" \o term \o "* after:" \o after

\* results.get('messages', [])
Found(results) == IF "messages" \in DOMAIN results THEN results.messages ELSE <<>>

MaxEmails == 5

\* The whole list, without the limit.
BatchAll(found) == found

\* messages[:5]
Batch(found) == SubSeq(found, 1, Min({MaxEmails, Len(found)}))

\* lines 422-428: what is kept of an enriched message
Detail(email_data) ==
    [subject |-> email_data.subject,
     sender |-> email_data.sender,
     date |-> email_data.date,
     body |-> email_data.body,
     category |-> email_data.category]

\* The ResultSet is a dict in insertion order: a sequence of items with distinct
\* companies.
Keys(dict) == {dict[k].company : k \in 1..Len(dict)}

\* dict[company] = emails
Put(dict, company, emails) ==
    IF company \in Keys(dict)
    THEN [k \in 1..Len(dict) |-> IF dict[k].company = company
                                 THEN [company |-> company, emails |-> emails]
                                 ELSE dict[k]]
    ELSE Append(dict, [company |-> company, emails |-> emails])

\* `for company in companies`: where the run goes after the k-th of n companies
Continue(k, n) == IF k < n THEN [idx |-> k + 1, pc |-> "from"] ELSE [idx |-> k, pc |-> "print"]

\* The handler outside the loop: the first provider error ends the search.
AfterHttpErrorReturns(k, n) == [idx |-> k, pc |-> "print"]

\* lines 460-461: the handler is inside the loop, which goes on
AfterHttpError(k, n) == Continue(k, n)

\* a < b for str: by code point, a proper prefix first
StrLess(a, b) ==
    \E k \in 1..Len(b) :
        /\ k <= Len(a) + 1
        /\ SubSeq(a, 1, k - 1) = SubSeq(b, 1, k - 1)
        /\ (k = Len(a) + 1 \/ Ord(CharAt(a, k)) < Ord(CharAt(b, k)))

\* sorted(S) for a set of str
sorted(S) ==
    [k \in 1..Cardinality(S) |->
        CHOOSE x \in S : Cardinality({y \in S : StrLess(y, x)}) = k - 1]

Categories == <<"Application Submitted", "Application Rejected", "Interview Request",
                "Application Related", "Other", "Error">>

\* lines 488-494: the number of emails of the category in the ResultSet
CategoryCount(dict, category) ==
    LET Count(emails) == Cardinality({k \in 1..Len(emails) : emails[k].category = category})
        RECURSIVE Sum(_)
        Sum(k) == IF k = 0 THEN 0 ELSE Sum(k - 1) + Count(dict[k].emails)
    IN  Sum(Len(dict))

\* The report without the early return of lines 473-475.
print_results_lists_always(dict, reloaded) ==
    [nothing_found |-> dict = <<>>,
     summary |-> <<>>,
     by_company |-> [k \in 1..Len(dict) |-> dict[k].company],
     no_emails |-> sorted({reloaded[k] : k \in 1..Len(reloaded)} \ Keys(dict))]

\* print_results (lines 467-554), by the sections it prints: the message of an
\* empty ResultSet and nothing else, or the counts of the categories met, the
\* companies in the order of the ResultSet and the companies with no emails;
\* reloaded is what load_companies returns on line 547.
print_results(dict, reloaded) ==
    IF dict = <<>>
    THEN [nothing_found |-> TRUE, summary |-> <<>>, by_company |-> <<>>, no_emails |-> <<>>]
    ELSE [nothing_found |-> FALSE,
          summary |-> [c \in {Categories[k] : k \in 1..Len(Categories)} |->
                          CategoryCount(dict, c)],
          by_company |-> [k \in 1..Len(dict) |-> dict[k].company],
          no_emails |-> sorted({reloaded[k] : k \in 1..Len(reloaded)} \ Keys(dict))]

MaxIds == 6

\* What load_companies can return: nothing (no file, no column, no names) or the
\* distinct names of the column in the order of the sheet.
SampleCompanyLists ==
    { <<>>, <<"Acme Inc">>, <<"Zeta Group", "Acme Inc", "Beta LLC">> }

\* The days on which the run takes place.
SampleToday == { <<2025, 11, 3>>, <<2024, 3, 15>> }

\* What the provider answers to the get call for the messages of the mailbox, by
\* kind: a plain-text message, a call that raises, an HTML message whose Date
\* header is not a date, a record without payload, data that lost its padding, a
\* multipart message.
SampleMessages ==
    << [payload |-> [headers |-> SampleHeaders, mimeType |-> "text/plain",
                     body |-> [size |-> 23,
                               data |-> EncodeData("Thank you for applying.")]]],
       [exc |-> "<HttpError 404 \"Requested entity was not found.\">"],
       [payload |-> [headers |-> << [name |-> "From", value |-> "hr@beta.example"],
                                    [name |-> "Date", value |-> "yesterday"] >>,
                     mimeType |-> "text/html",
                     body |-> [size |-> 31,
                               data |-> EncodeData("<p>Are you <b>available</b>?</p>")]]],
       [threadId |-> "t4"],
       [payload |-> [headers |-> SampleHeaders, mimeType |-> "text/plain",
                     body |-> [size |-> 2, data |-> "SGk"]]],
       [payload |-> [headers |-> SampleHeaders, mimeType |-> "multipart/alternative",
                     body |-> [size |-> 0],
                     parts |-> << SamplePart("0", "text/html", TRUE, <<>>),
                                  SamplePart("1", "text/plain", TRUE, <<>>) >>]] >>

MessageId(k) == "m" \o IntToStr(k)

\* The message with its id, and a Subject header that names it when the message
\* has headers.
Numbered(message, id) ==
    IF Raised(message) THEN message
    ELSE IF "payload" \in DOMAIN message /\ "headers" \in DOMAIN message.payload
    THEN [id |-> id,
          payload |-> [message.payload EXCEPT
                          !.headers = <<[name |-> "Subject", value |-> "Re: " \o id]>> \o @]]
    ELSE [id |-> id] @@ message

\* The mailbox has MaxIds messages, of the sample kinds in turn.
MessageOf(k) == Numbered(SampleMessages[((k - 1) % Len(SampleMessages)) + 1], MessageId(k))

\* service.users().messages().get(userId='me', id=..., format='full').execute()
Mailbox == [id \in {MessageId(k) : k \in 1..MaxIds} |->
               MessageOf(CHOOSE k \in 1..MaxIds : MessageId(k) = id)]

\* The numbers of messages a search can match.
SearchSizes == {0, 1, 3, MaxIds}

\* The answer of the list call that matches n messages, the first of them
\* MessageId(first): without the key messages when nothing matches.
ListResponse(first, n) ==
    IF n = 0 THEN [resultSizeEstimate |-> 0]
    ELSE [messages |-> [j \in 1..n |-> [id |-> MessageId(((first + j - 2) % MaxIds) + 1),
                                        threadId |-> "t"]],
          resultSizeEstimate |-> n]

\* service.users().messages().list(userId='me', q=query).execute(): an answer, or
\* the HttpError it raises
SearchOutcomes(first) ==
    { [exc |-> "<HttpError 429 \"Rate Limit Exceeded\">"] }
        \cup { ListResponse(first, n) : n \in SearchSizes }

Init ==
    /\ pc = "start"
    /\ companies = <<>>
    /\ bs4 \in Bs4Modes
    /\ date_str = ""
    /\ idx = 0
    /\ search_term = ""
    /\ messages = <<>>
    /\ email_details = <<>>
    /\ company_emails = <<>>
    /\ calls = <<>>
    /\ report = <<>>
    /\ ReviewIdle
    /\ fn = "main"
    /\ arg = <<>>
    /\ ret = <<>>

\* main without the return of lines 564-566: an empty list goes on to
\* get_gmail_service.
LoadCompaniesGoesOn ==
    /\ pc = "start"
    /\ \E loaded \in SampleCompanyLists :
           /\ companies' = loaded
           /\ pc' = "auth"
    /\ UNCHANGED <<bs4, date_str, idx, search_term, messages, email_details,
                   company_emails, calls, report, pureVars, reviewVars>>

\* lines 563-568
LoadCompanies ==
    /\ pc = "start"
    /\ \E loaded \in SampleCompanyLists :
           /\ companies' = loaded
           /\ pc' = IF loaded = <<>> THEN "done" ELSE "auth"
    /\ UNCHANGED <<bs4, date_str, idx, search_term, messages, email_details,
                   company_emails, calls, report, pureVars, reviewVars>>

\* lines 571-576: get_gmail_service returns the service or raises
Authenticate ==
    /\ pc = "auth"
    /\ \E ok \in BOOLEAN :
           /\ calls' = Append(calls, [op |-> "auth", ok |-> ok])
           /\ pc' = IF ok THEN "check" ELSE "done"
    /\ UNCHANGED <<companies, bs4, date_str, idx, search_term, messages, email_details,
                   company_emails, report, pureVars, reviewVars>>

\* lines 391-396: check_emails_for_companies is entered
BeginCheck ==
    /\ pc = "check"
    /\ \E today \in SampleToday : date_str' = PastDate(today)
    /\ company_emails' = <<>>
    /\ idx' = Continue(0, Len(companies)).idx
    /\ pc' = Continue(0, Len(companies)).pc
    /\ UNCHANGED <<companies, bs4, search_term, messages, email_details, calls, report,
                   pureVars, reviewVars>>

\* lines 397-413 and 460-461: the search by sender
SearchFrom ==
    /\ pc = "from"
    /\ search_term' = SearchTerm(companies[idx])
    /\ \E results \in SearchOutcomes(1) :
           /\ calls' = Append(calls, [op |-> "list", company |-> companies[idx],
                                      q |-> FromQuery(search_term', date_str),
                                      results |-> results])
           /\ IF Raised(results)
              THEN /\ idx' = AfterHttpError(idx, Len(companies)).idx
                   /\ pc' = AfterHttpError(idx, Len(companies)).pc
                   /\ UNCHANGED <<messages, email_details>>
              ELSE /\ messages' = Found(results)
                   /\ idx' = idx
                   /\ IF Found(results) # <<>>
                      THEN email_details' = <<>> /\ pc' = "extract"
                      ELSE email_details' = email_details /\ pc' = "subject"
    /\ UNCHANGED <<companies, bs4, date_str, company_emails, report, pureVars, reviewVars>>

\* lines 432-438 and 457-461: the search by subject
SearchSubject ==
    /\ pc = "subject"
    /\ \E results \in SearchOutcomes(4) :
           /\ calls' = Append(calls, [op |-> "list", company |-> companies[idx],
                                      q |-> SubjectQuery(search_term, date_str),
                                      results |-> results])
           /\ IF Raised(results)
              THEN /\ idx' = AfterHttpError(idx, Len(companies)).idx
                   /\ pc' = AfterHttpError(idx, Len(companies)).pc
                   /\ UNCHANGED <<messages, email_details>>
              ELSE /\ messages' = Found(results)
                   /\ IF Found(results) # <<>>
                      THEN email_details' = <<>> /\ pc' = "extract" /\ idx' = idx
                      ELSE /\ email_details' = email_details
                           /\ idx' = Continue(idx, Len(companies)).idx
                           /\ pc' = Continue(idx, Len(companies)).pc
    /\ UNCHANGED <<companies, bs4, date_str, search_term, company_emails, report, pureVars, reviewVars>>

\* lines 418-428 and 443-453: one turn of `for message in messages[:5]`
ExtractNext ==
    /\ pc = "extract"
    /\ Len(email_details) < Len(Batch(messages))
    /\ calls' = Append(calls, [op |-> "get", company |-> companies[idx],
                               id |-> Batch(messages)[Len(email_details) + 1].id])
    /\ email_details' =
           Append(email_details,
                  Detail(extract_email_content(Mailbox,
                                               Batch(messages)[Len(email_details) + 1].id,
                                               companies[idx])))
    /\ UNCHANGED <<pc, companies, bs4, date_str, idx, search_term, messages,
                   company_emails, report, pureVars, reviewVars>>

\* lines 430-431 and 455-456: the loop is over
StoreDetails ==
    /\ pc = "extract"
    /\ Len(email_details) = Len(Batch(messages))
    /\ company_emails' = Put(company_emails, companies[idx], email_details)
    /\ idx' = Continue(idx, Len(companies)).idx
    /\ pc' = Continue(idx, Len(companies)).pc
    /\ UNCHANGED <<companies, bs4, date_str, search_term, messages, email_details, calls,
                   report, pureVars, reviewVars>>

\* lines 579-582: print_results; load_companies reads the file again and returns
\* [] when it cannot
PrintResults ==
    /\ pc = "print"
    /\ \E reloaded \in {companies, <<>>} :
           report' = [loaded |-> reloaded] @@ print_results(company_emails, reloaded)
    /\ pc' = "ask"
    /\ UNCHANGED <<companies, bs4, date_str, idx, search_term, messages, email_details,
                   company_emails, calls, pureVars, reviewVars>>

\* lines 585-593: the review is entered on the answer y
AskReview ==
    /\ pc = "ask"
    /\ \E review_choice \in {"", "n", "y"} :
           pc' = IF review_choice = "y" THEN "review" ELSE "done"
    /\ UNCHANGED <<companies, bs4, date_str, idx, search_term, messages, email_details,
                   company_emails, calls, report, pureVars, reviewVars>>

Next ==
    \/ LoadCompanies
    \/ Authenticate
    \/ BeginCheck
    \/ SearchFrom
    \/ SearchSubject
    \/ ExtractNext
    \/ StoreDetails
    \/ PrintResults
    \/ AskReview

Spec == Init /\ [][Next]_vars

(***************************************************************************)
(* The provider calls of a run, read from the history                      *)
(***************************************************************************)

IsListCall(j) == calls[j].op = "list"

IsFromCall(j) == IsListCall(j) /\ SubSeq(calls[j].q, 1, 5) = "from:"

IsSubjectCall(j) == IsListCall(j) /\ SubSeq(calls[j].q, 1, 8) = "subject:"

\* The provider reported an error to the j-th call, a search.
Failed(j) == IsListCall(j) /\ Raised(calls[j].results)

\* The ids the j-th call, a search, returned.
Returned(j) == IF Failed(j) THEN <<>> ELSE Found(calls[j].results)

\* check_emails_for_companies has returned.
CheckDone == pc \in {"print", "ask", "review"} \/ (pc = "done" /\ report # <<>>)

\* C1: a subject: query directly follows the from: query of the same organization
\* that returned zero ids, and carries the same search term and after: date; every
\* from: query that returned zero ids is followed by the subject: query; when the
\* from: query returned an id (or failed), no subject: query is issued for the
\* organization.
C1_FallbackOnlyOnEmpty ==
    \A j \in 1..Len(calls) :
        /\ IsSubjectCall(j) =>
               /\ j > 1
               /\ IsFromCall(j - 1)
               /\ calls[j - 1].company = calls[j].company
               /\ ~Failed(j - 1)
               /\ Returned(j - 1) = <<>>
               /\ SubSeq(calls[j].q, 9, Len(calls[j].q))
                      = SubSeq(calls[j - 1].q, 6, Len(calls[j - 1].q))
        /\ (IsFromCall(j) /\ ~Failed(j) /\ Returned(j) = <<>>) =>
               IF j < Len(calls)
               THEN IsSubjectCall(j + 1) /\ calls[j + 1].company = calls[j].company
               ELSE pc = "subject" /\ companies[idx] = calls[j].company
        /\ (IsFromCall(j) /\ (Failed(j) \/ Returned(j) # <<>>)) =>
               \A i \in 1..Len(calls) :
                   IsSubjectCall(i) => calls[i].company # calls[j].company

\* The run is over; one organization was found by the subject: query after an
\* empty from: query, another by its from: query.
C1_Witness ==
    /\ pc = "done"
    /\ \E j \in 1..Len(calls) : IsSubjectCall(j) /\ Returned(j) # <<>>
    /\ \E j \in 1..Len(calls) : IsFromCall(j) /\ Returned(j) # <<>>

\* The position in the list of the organization of the j-th call.
PositionOf(j) == CHOOSE p \in 1..Len(companies) : companies[p] = calls[j].company

C2_Skipped ==
    /\ \A j \in 1..Len(calls) :
           Failed(j) =>
               /\ calls[j].company \notin Keys(company_emails)
               /\ \A i \in (j + 1)..Len(calls) : calls[i].company # calls[j].company
               /\ IF PositionOf(j) < Len(companies)
                  THEN IF j < Len(calls)
                       THEN /\ IsFromCall(j + 1)
                            /\ calls[j + 1].company = companies[PositionOf(j) + 1]
                       ELSE pc = "from" /\ idx = PositionOf(j) + 1
                  ELSE j = Len(calls) /\ CheckDone
    /\ CheckDone =>
           \A p \in 1..Len(companies) :
               \E j \in 1..Len(calls) : IsFromCall(j) /\ calls[j].company = companies[p]

C2_ErrorStep ==
    (Len(calls') = Len(calls) + 1 /\ calls'[Len(calls')].op = "list"
        /\ Raised(calls'[Len(calls')].results))
    => company_emails' = company_emails

\* C2: an organization whose search (by sender or by subject) reported a provider
\* error has no entry in the ResultSet and no later call (no retry); the step
\* that meets the error leaves the ResultSet as it was; the next organization of
\* the list is searched next, and at the end every organization was searched.
C2_ErrorSkipsOnlyThatOrganization == []C2_Skipped /\ [][C2_ErrorStep]_vars

\* The run is over; the searches of the second of three organizations failed,
\* the first and the third have their entries.
C2_Witness ==
    /\ pc = "done"
    /\ Len(companies) = 3
    /\ \E j \in 1..Len(calls) : Failed(j) /\ IsSubjectCall(j) /\ PositionOf(j) = 2
    /\ Keys(company_emails) = {companies[1], companies[3]}

\* The messages of the mailbox whose fetch raises, that lack the payload or its
\* headers, or whose data does not decode.
BrokenIds ==
    {id \in DOMAIN Mailbox :
        \/ Raised(Mailbox[id])
        \/ "payload" \notin DOMAIN Mailbox[id]
        \/ "headers" \notin DOMAIN Mailbox[id].payload
        \/ Raised(Buffers(Mailbox[id].payload))}

\* The sound messages of the mailbox with HTML text and no plain text.
HtmlOnlyIds ==
    {id \in DOMAIN Mailbox \ BrokenIds :
        /\ Buffers(Mailbox[id].payload).plain_text = ""
        /\ Buffers(Mailbox[id].payload).html_content # ""}

\* The sound messages with a Date header that is not a date.
UndatedIds ==
    {id \in DOMAIN Mailbox \ BrokenIds :
        HeaderValue(Mailbox[id].payload.headers, "Date", "") \notin ParsableDates}

\* The index in calls of the search that produced the entry of the company.
ProducedBy(company) ==
    CHOOSE j \in 1..Len(calls) :
        IsListCall(j) /\ calls[j].company = company /\ Returned(j) # <<>>

\* The lists of enriched messages of the run with the ids they were made from,
\* id by id: the entries of the ResultSet, and the list that is being filled.
Enrichments ==
    { [ids |-> Returned(ProducedBy(company_emails[k].company)),
       emails |-> company_emails[k].emails] : k \in 1..Len(company_emails) }
    \cup (IF pc = "extract" THEN {[ids |-> messages, emails |-> email_details]} ELSE {})

IsErrorEmail(email) ==
    /\ email.category = "Error"
    /\ email.subject = "Error retrieving subject"
    /\ email.sender = "Error retrieving sender"
    /\ email.date = None
    /\ SubSeq(email.body, 1, 23) = "Error retrieving body: "
    /\ Len(email.body) > 23

\* C3 (as amended): a message whose fetch raises, that lacks payload or headers, or
\* whose data does not decode, is enriched to the Error message (placeholder
\* subject and sender, null timestamp, a body that embeds the failure); a failure
\* of the HTML markup stripping is not such a failure: the message keeps its
\* subject, its body is the bracketed failure text and its category is not
\* Error; a Date header that does not parse only leaves the timestamp null. In
\* every case the message occupies its slot: the k-th message of the list is the
\* enrichment of the k-th id, and a stored list has one message per id of the
\* batch.
C3_FailuresKeepTheirSlot ==
    \A e \in Enrichments :
        /\ Len(e.emails) <= Len(e.ids)
        /\ \A k \in 1..Len(e.emails) :
               /\ e.ids[k].id \in BrokenIds => IsErrorEmail(e.emails[k])
               /\ e.ids[k].id \notin BrokenIds =>
                      /\ e.emails[k].category # "Error"
                      /\ e.emails[k].subject = "Re: " \o e.ids[k].id
               /\ (e.ids[k].id \in HtmlOnlyIds /\ bs4 = "raises") =>
                      e.emails[k].body
                          = "[Error extracting text from HTML: " \o Bs4Failure \o "]"
               /\ e.ids[k].id \in UndatedIds => e.emails[k].date = None
    /\ \A k \in 1..Len(company_emails) :
           Len(company_emails[k].emails)
               = Min({5, Len(Returned(ProducedBy(company_emails[k].company)))})

\* An entry of five messages is stored, BeautifulSoup raising: the second message
\* could not be fetched, the third is the HTML message whose markup stripping
\* failed, the fourth and the fifth are Error messages too.
C3_Witness ==
    /\ bs4 = "raises"
    /\ \E k \in 1..Len(company_emails) :
           LET emails == company_emails[k].emails
           IN  /\ Len(emails) = 5
               /\ emails[1].category = "Application Submitted"
               /\ IsErrorEmail(emails[2])
               /\ emails[3].body = "[Error extracting text from HTML: " \o Bs4Failure \o "]"
               /\ emails[3].category = "Other"
               /\ IsErrorEmail(emails[4])
               /\ IsErrorEmail(emails[5])

\* C3 as stated: every failure, that of the HTML markup stripping included, gives
\* the Error message.
C3_AsStated ==
    \A e \in Enrichments :
        \A k \in 1..Len(e.emails) :
            (e.ids[k].id \in BrokenIds \/ (e.ids[k].id \in HtmlOnlyIds /\ bs4 = "raises"))
                => IsErrorEmail(e.emails[k])

\* C4: an organization is a key of the ResultSet only if one of its searches
\* returned an id; its list holds min(5, n) messages for the n ids of that search,
\* made from the first ids in the order of the search by one fetch each, and
\* nothing else is fetched for it; no list is empty, none holds more than 5.
C4_AtMostFiveInOrder ==
    \A k \in 1..Len(company_emails) :
        LET item == company_emails[k]
        IN  /\ \E j \in 1..Len(calls) :
                   IsListCall(j) /\ calls[j].company = item.company /\ Returned(j) # <<>>
            /\ Len(item.emails) = Min({5, Len(Returned(ProducedBy(item.company)))})
            /\ Len(item.emails) >= 1
            /\ Len(item.emails) <= 5
            /\ \A m \in 1..Len(item.emails) :
                   /\ calls[ProducedBy(item.company) + m].op = "get"
                   /\ calls[ProducedBy(item.company) + m].id
                          = Returned(ProducedBy(item.company))[m].id
                   /\ \/ item.emails[m].subject
                             = "Re: " \o Returned(ProducedBy(item.company))[m].id
                      \/ /\ Returned(ProducedBy(item.company))[m].id \in BrokenIds
                         /\ item.emails[m].category = "Error"
            /\ Cardinality({i \in 1..Len(calls) :
                               calls[i].op = "get" /\ calls[i].company = item.company})
                   = Len(item.emails)

\* A search by sender returned more than five ids and its entry holds five
\* messages; another entry comes from a search by subject that returned one id.
C4_Witness ==
    /\ pc = "done"
    /\ \E k \in 1..Len(company_emails) :
           /\ Len(Returned(ProducedBy(company_emails[k].company))) > 5
           /\ IsFromCall(ProducedBy(company_emails[k].company))
           /\ Len(company_emails[k].emails) = 5
    /\ \E k \in 1..Len(company_emails) :
           /\ Len(Returned(ProducedBy(company_emails[k].company))) = 1
           /\ IsSubjectCall(ProducedBy(company_emails[k].company))
           /\ Len(company_emails[k].emails) = 1

IsSorted(list) == \A a, b \in 1..Len(list) : a < b => StrLess(list[a], list[b])

Elements(list) == {list[k] : k \in 1..Len(list)}

\* C10 (as amended): a render of a ResultSet that is not empty lists, in sorted
\* order, exactly the organizations load_companies returns at that moment minus
\* the keys of the ResultSet; a render of the empty ResultSet prints that nothing
\* was found and lists no organization.
C10_ZeroMatchListed ==
    report # <<>> =>
        IF company_emails = <<>>
        THEN report.nothing_found /\ report.no_emails = <<>>
        ELSE /\ ~report.nothing_found
             /\ IsSorted(report.no_emails)
             /\ Elements(report.no_emails) = Elements(report.loaded) \ Keys(company_emails)

\* A report lists two organizations without match in sorted order, which is not
\* the order of the sheet.
C10_Witness ==
    /\ report # <<>>
    /\ companies = <<"Zeta Group", "Acme Inc", "Beta LLC">>
    /\ Keys(company_emails) = {"Acme Inc"}
    /\ report.no_emails = <<"Beta LLC", "Zeta Group">>

\* C10 as stated: every render, that of the empty ResultSet included, lists the
\* organizations without match.
C10_AsStated ==
    report # <<>> =>
        /\ IsSorted(report.no_emails)
        /\ Elements(report.no_emails) = Elements(report.loaded) \ Keys(company_emails)

(***************************************************************************)
(* SpecReview: manual_category_review (lines 177-225) and the second       *)
(* report of main (lines 586-593).  Spec follows a run up to the answer    *)
(* that enters the review; SpecReview follows the review from the          *)
(* ResultSets a run can hand to it.                                        *)
(***************************************************************************)

MaxInvalid == 2

\* The list of line 204 with the category of failures added to it.
ReviewCategoriesWithError ==
    <<"Application Submitted", "Application Rejected", "Interview Request",
      "Application Related", "Other", "Error">>

\* line 204: the categories the operator can choose from
ReviewCategories == <<"Application Submitted", "Application Rejected", "Interview Request",
                      "Application Related", "Other">>

Digits == "0123456789"

IsDigit(c) == \E d \in 1..Len(Digits) : CharAt(Digits, d) = c

\* The number written by a string of digits.
RECURSIVE DigitsValue(_)
DigitsValue(digits) ==
    IF digits = "" THEN 0
    ELSE 10 * DigitsValue(SubSeq(digits, 1, Len(digits) - 1))
             + (CHOOSE d \in 0..9 : CharAt(Digits, d + 1) = CharAt(digits, Len(digits)))

\* The number written by an optional sign and digits, or the ValueError.
SignedValue(sign, digits) ==
    IF digits = "" \/ \E k \in 1..Len(digits) : ~IsDigit(CharAt(digits, k))
    THEN [exc |-> "invalid literal for int() with base 10"]
    ELSE [value |-> sign * DigitsValue(digits)]

\* int(s) for a stripped s
IntOfStripped(t) ==
    IF t # "" /\ CharAt(t, 1) = "-" THEN SignedValue(-1, Rest(t))
    ELSE IF t # "" /\ CharAt(t, 1) = "+" THEN SignedValue(1, Rest(t))
    ELSE SignedValue(1, t)

\* int(typed): blanks around the number are ignored
int(typed) == IntOfStripped(strip(typed))

\* lines 184-187: the email after the i-th email of the c-th company in the order
\* of the two loops, <<0, 0>> when that was the last one
NextEmail(dict, c, i) ==
    IF i < Len(dict[c].emails) THEN <<c, i + 1>>
    ELSE IF c < Len(dict) THEN <<c + 1, 1>>
    ELSE <<0, 0>>

\* line 213: email['category'] = category, for the i-th email of the c-th company
SetCategory(dict, c, i, category) ==
    [dict EXCEPT ![c].emails[i].category = category]

\* An email of a ResultSet, by its category.
SampleEmail(category, date) ==
    [subject |-> "Your application",
     sender |-> "Acme Jobs <jobs@acme.example>",
     date |-> date,
     body |-> "Category on arrival: " \o category,
     category |-> category]

\* ResultSets that check_emails_for_companies returns: no entry, or entries with
\* one to five emails each.
SampleResultSets ==
    { <<>>,
      << [company |-> "Acme Inc",
          emails |-> << SampleEmail("Error", None) >>] >>,
      << [company |-> "Zeta Group",
          emails |-> << SampleEmail("Application Submitted",
                                    <<"Mon, 03 Nov 2025 10:15:00 +0100">>),
                        SampleEmail("Error", None) >>],
         [company |-> "Acme Inc",
          emails |-> << SampleEmail("Other", None) >>] >> }

\* What the operator can type at the y/n question.
SampleChoices == {"", "y", " Y ", "n", "N", "yes", "x"}

\* What the operator can type when asked for a number.
SampleNumbers == {"1", "2", " 3 ", "4", "+5", "0", "6", "-1", "abc", "", "2.5"}

ReviewInit ==
    /\ pc = "review"
    /\ company_emails \in SampleResultSets
    /\ companies = [k \in 1..Len(company_emails) |-> company_emails[k].company]
    /\ bs4 = "ok"
    /\ date_str = ""
    /\ idx = 0
    /\ search_term = ""
    /\ messages = <<>>
    /\ email_details = <<>>
    /\ calls = <<>>
    /\ report = <<>>
    /\ ReviewIdle
    /\ fn = "manual_category_review"
    /\ arg = company_emails
    /\ ret = <<>>

\* lines 177-194: the review starts at the first email, or returns at once when
\* the ResultSet is empty
BeginReview ==
    /\ pc = "review"
    /\ IF company_emails = <<>>
       THEN /\ pc' = "reviewed"
            /\ ret' = <<company_emails>>
            /\ UNCHANGED <<rev_company, rev_email, prompt>>
       ELSE /\ pc' = "reviewing"
            /\ rev_company' = 1
            /\ rev_email' = 1
            /\ prompt' = "yn"
            /\ ret' = ret
    /\ UNCHANGED <<companies, bs4, date_str, idx, search_term, messages, email_details,
                   company_emails, calls, report, answer, invalid, reviewed, fn, arg>>

\* The loops move on from the email under review, whose category is settled in
\* dict; after the last email the function returns dict (lines 224-225).
LeaveEmail(dict) ==
    /\ company_emails' = dict
    /\ reviewed' = Append(reviewed, <<rev_company, rev_email>>)
    /\ invalid' = 0
    /\ rev_company' = NextEmail(dict, rev_company, rev_email)[1]
    /\ rev_email' = NextEmail(dict, rev_company, rev_email)[2]
    /\ IF NextEmail(dict, rev_company, rev_email) = <<0, 0>>
       THEN prompt' = "" /\ pc' = "reviewed" /\ ret' = <<dict>>
       ELSE prompt' = "yn" /\ pc' = pc /\ ret' = ret

\* A review with a retry limit: the second invalid answer for an email makes the
\* review move on.
AskAgainGivesUp ==
    IF invalid < 1
    THEN /\ invalid' = invalid + 1
         /\ UNCHANGED <<pc, company_emails, rev_company, rev_email, prompt, reviewed, ret>>
    ELSE LeaveEmail(company_emails)

\* The question is asked again for the same email, however often that happened;
\* invalid counts the invalid answers for the email up to MaxInvalid.
AskAgain ==
    /\ invalid' = Min({invalid + 1, MaxInvalid})
    /\ UNCHANGED <<pc, company_emails, rev_company, rev_email, prompt, reviewed, ret>>

\* lines 197-201 and 221-222: the answer to "Is this category correct?"
ReadChoice(typed) ==
    /\ pc = "reviewing"
    /\ prompt = "yn"
    /\ answer' = typed
    /\ IF lower(strip(typed)) \in {"", "y"}
       THEN LeaveEmail(company_emails)
       ELSE IF lower(strip(typed)) = "n"
       THEN /\ prompt' = "number"
            /\ UNCHANGED <<pc, company_emails, rev_company, rev_email, invalid, reviewed,
                           ret>>
       ELSE AskAgain
    /\ UNCHANGED <<companies, bs4, date_str, idx, search_term, messages, email_details,
                   calls, report, fn, arg>>

\* The number prompt with the answer parsed.
NumberRead(cat_choice) ==
    IF ~Raised(cat_choice) /\ 1 <= cat_choice.value
           /\ cat_choice.value <= Len(ReviewCategories)
    THEN LeaveEmail(SetCategory(company_emails, rev_company, rev_email,
                                ReviewCategories[cat_choice.value]))
    ELSE AskAgain

\* lines 209-220: the answer to "Enter new category number"
ReadNumber(typed) ==
    /\ pc = "reviewing"
    /\ prompt = "number"
    /\ answer' = typed
    /\ NumberRead(int(typed))
    /\ UNCHANGED <<companies, bs4, date_str, idx, search_term, messages, email_details,
                   calls, report, fn, arg>>

\* lines 589-593: main prints the updated results
PrintUpdated ==
    /\ pc = "reviewed"
    /\ \E reloaded \in {companies, <<>>} :
           report' = [loaded |-> reloaded] @@ print_results(company_emails, reloaded)
    /\ pc' = "done"
    /\ UNCHANGED <<companies, bs4, date_str, idx, search_term, messages, email_details,
                   company_emails, calls, reviewVars, pureVars>>

ReviewNext ==
    \/ BeginReview
    \/ \E typed \in SampleChoices : ReadChoice(typed)
    \/ \E typed \in SampleNumbers : ReadNumber(typed)
    \/ PrintUpdated

SpecReview == ReviewInit /\ [][ReviewNext]_vars

\* The operator types y, n or nothing at the y/n question.
ValidChoice ==
    \E typed \in SampleChoices :
        ReadChoice(typed) /\ lower(strip(typed)) \in {"", "y", "n"}

\* The operator types the number of a category.
ValidNumber ==
    \E typed \in SampleNumbers :
        /\ ReadNumber(typed)
        /\ ~Raised(int(typed))
        /\ int(typed).value \in 1..Len(ReviewCategories)

\* The review with an operator who, at every question, gives a valid answer in
\* the end; the steps of the program itself are taken when they can be.
SpecReviewFair ==
    /\ SpecReview
    /\ WF_vars(BeginReview)
    /\ WF_vars(ValidChoice)
    /\ WF_vars(ValidNumber)
    /\ WF_vars(PrintUpdated)

\* The places of the emails of a ResultSet: company by company, email by email.
Places(dict) ==
    {p \in (1..Len(dict)) \X (1..MaxEmails) : p[2] <= Len(dict[p[1]].emails)}

CategoryAt(dict, p) == dict[p[1]].emails[p[2]].category

ErrorCount(dict) == Cardinality({p \in Places(dict) : CategoryAt(dict, p) = "Error"})

Offerable == {"Application Submitted", "Application Rejected", "Interview Request",
              "Application Related", "Other"}

\* The ResultSet under review against arg, the ResultSet as it was handed in.
C11_OnlyCategories ==
    /\ Len(company_emails) = Len(arg)
    /\ \A c \in 1..Len(arg) :
           /\ company_emails[c].company = arg[c].company
           /\ Len(company_emails[c].emails) = Len(arg[c].emails)
           /\ \A i \in 1..Len(arg[c].emails) :
                  /\ company_emails[c].emails[i].subject = arg[c].emails[i].subject
                  /\ company_emails[c].emails[i].sender = arg[c].emails[i].sender
                  /\ company_emails[c].emails[i].date = arg[c].emails[i].date
                  /\ company_emails[c].emails[i].body = arg[c].emails[i].body
                  /\ DOMAIN company_emails[c].emails[i] = DOMAIN arg[c].emails[i]
    /\ \A p \in Places(arg) :
           \/ CategoryAt(company_emails, p) = CategoryAt(arg, p)
           \/ /\ CategoryAt(company_emails, p) \in Offerable
              /\ \E k \in 1..Len(reviewed) : reviewed[k] = p
    /\ ErrorCount(company_emails) <= ErrorCount(arg)
    /\ ret # <<>> => ret[1] = company_emails

\* An answer to the y/n question changes no category; an answer to the number
\* question changes at most the category of the email under review, to an
\* offerable one, and only when the review leaves that email.
C11_AnswerStep ==
    /\ prompt = "yn" => company_emails' = company_emails
    /\ prompt = "number" =>
           /\ \A p \in Places(company_emails) \ {<<rev_company, rev_email>>} :
                  CategoryAt(company_emails', p) = CategoryAt(company_emails, p)
           /\ IF reviewed' = reviewed
              THEN company_emails' = company_emails
              ELSE CategoryAt(company_emails', <<rev_company, rev_email>>) \in Offerable

\* C11: manual_category_review changes nothing but category fields: organizations,
\* their order, the number and order of the messages and each message's subject,
\* sender, timestamp and body are those of the ResultSet handed in; a confirmed
\* message keeps its category, a rejected one ends with one of the five
\* offerable categories, never Error, so the number of Error messages never
\* grows.
C11_ReviewChangesOnlyCategories == []C11_OnlyCategories /\ [][C11_AnswerStep]_vars

\* The review of three messages has returned: the first was confirmed, the Error
\* message was given a category, and so was the message of the second
\* organization.
C11_Witness ==
    /\ ret # <<>>
    /\ Len(reviewed) = 3
    /\ CategoryAt(arg, <<1, 2>>) = "Error"
    /\ CategoryAt(company_emails, <<1, 1>>) = "Application Submitted"
    /\ CategoryAt(company_emails, <<1, 2>>) = "Interview Request"
    /\ CategoryAt(company_emails, <<2, 1>>) = "Application Rejected"
    /\ ErrorCount(company_emails) < ErrorCount(arg)

IsAuthCall(j) == calls[j].op = "auth"

\* The run ended in main before check_emails_for_companies was entered: nothing
\* was searched, fetched, stored or printed.
EndedBeforeCheck ==
    /\ pc = "done"
    /\ \A j \in 1..Len(calls) : IsAuthCall(j)
    /\ date_str = ""
    /\ idx = 0
    /\ company_emails = <<>>
    /\ report = <<>>

\* C12: in a run where load_companies returned the empty list, no call is made at
\* all, authentication included, and the run has ended; in a run where
\* authentication failed, it was attempted once, for a list that is not empty,
\* and the run has ended with no search and no fetch; every search and fetch is
\* made after a successful authentication, for a list that is not empty.
C12_NoMailCallAfterEarlyExit ==
    /\ (pc # "start" /\ companies = <<>>) => (calls = <<>> /\ EndedBeforeCheck)
    /\ \A j \in 1..Len(calls) :
           IF IsAuthCall(j)
           THEN /\ j = 1
                /\ companies # <<>>
                /\ ~calls[j].ok => (Len(calls) = 1 /\ EndedBeforeCheck)
           ELSE /\ j > 1
                /\ calls[1] = [op |-> "auth", ok |-> TRUE]
                /\ companies # <<>>
    /\ pc \in {"check", "from", "subject", "extract", "print", "ask", "review"} =>
           (companies # <<>> /\ Len(calls) >= 1 /\ calls[1] = [op |-> "auth", ok |-> TRUE])

\* Three organizations were loaded, authentication failed and the run is over.
C12_Witness ==
    /\ pc = "done"
    /\ Len(companies) = 3
    /\ calls = <<[op |-> "auth", ok |-> FALSE]>>

\* The number of places of the ResultSet up to the place p, in the order of the
\* organizations and, within an organization, of its messages.
Rank(dict, p) ==
    Cardinality({r \in Places(dict) : r[1] < p[1] \/ (r[1] = p[1] /\ r[2] <= p[2])})

\* The places of the ResultSet in that order.
InOrder(dict) ==
    [k \in 1..Cardinality(Places(dict)) |-> CHOOSE p \in Places(dict) : Rank(dict, p) = k]

\* What the operator can type, by what the review is to make of it.
Confirmations == {"", "y", " Y "}

Selections ==
    ("1" :> "Application Submitted") @@ ("2" :> "Application Rejected")
        @@ (" 3 " :> "Interview Request") @@ ("4" :> "Application Related")
        @@ ("+5" :> "Other")

InvalidChoices == {"yes", "x"}

InvalidNumbers == {"0", "6", "-1", "abc", "", "2.5"}

\* The review has left a prefix of the messages, in order, and is at the next one.
C13_InOrder ==
    /\ Len(reviewed) <= Len(InOrder(arg))
    /\ reviewed = SubSeq(InOrder(arg), 1, Len(reviewed))
    /\ pc = "reviewing" =>
           /\ Len(reviewed) < Len(InOrder(arg))
           /\ <<rev_company, rev_email>> = InOrder(arg)[Len(reviewed) + 1]
           /\ prompt \in {"yn", "number"}
    /\ ret # <<>> => reviewed = InOrder(arg)
    /\ invalid > 0 => pc = "reviewing"

\* The step leaves the review where it is: same message, same question, same
\* categories, nothing returned.
C13_Unmoved ==
    /\ rev_company' = rev_company
    /\ rev_email' = rev_email
    /\ prompt' = prompt
    /\ company_emails' = company_emails
    /\ reviewed' = reviewed
    /\ pc' = pc
    /\ ret' = ret

C13_AnswerStep ==
    pc = "reviewing" =>
        /\ (prompt = "yn" /\ answer' \in InvalidChoices) => C13_Unmoved
        /\ (prompt = "number" /\ answer' \in InvalidNumbers) => C13_Unmoved
        /\ reviewed' # reviewed =>
               /\ reviewed' = Append(reviewed, <<rev_company, rev_email>>)
               /\ \/ prompt = "yn" /\ answer' \in Confirmations
                  \/ /\ prompt = "number"
                     /\ answer' \in DOMAIN Selections
                     /\ CategoryAt(company_emails', <<rev_company, rev_email>>)
                            = Selections[answer']

C13_Returned == ret # <<>> /\ reviewed = InOrder(arg)

\* C13: manual_category_review visits every message exactly once, organization by
\* organization and message by message; an invalid y/n answer, a selection that
\* is not a number and a number out of range ask again for the same message,
\* change no category and do not advance, however many came before; the review
\* moves on only after a confirmation or a selection in range; with an operator
\* who gives a valid answer to every question in the end, the review returns.
C13_EveryMessageOnce ==
    /\ []C13_InOrder
    /\ [][C13_AnswerStep]_vars
    /\ <>C13_Returned

\* The first message of two was left; for the second, the operator gave as many
\* invalid answers as the model counts, the last one to the number question, and
\* the review still asks for its number.
C13_Witness ==
    /\ pc = "reviewing"
    /\ Len(arg) = 2
    /\ reviewed = <<<<1, 1>>>>
    /\ <<rev_company, rev_email>> = <<1, 2>>
    /\ prompt = "number"
    /\ answer = "abc"
    /\ invalid = MaxInvalid
    /\ company_emails = arg

=============================================================================
